---- MODULE Spec2Model ----
(***************************************************************************)
(* A model of src/app.py: the /ask request handler (ask_question), the     *)
(* session store (session_memories, ConversationBufferWindowMemory), the   *)
(* response cache (query_cache, get_cached_response, cache_response), the  *)
(* connection statistics (connection_stats) and the background jobs run    *)
(* by thread_pool.                                                         *)
(*                                                                         *)
(* Flask serves with threaded=True and the pool has several workers, and   *)
(* none of the shared dictionaries is guarded by a lock, so every handler  *)
(* and every job is modelled as a sequence of steps, one per access to     *)
(* shared state, that interleave freely.                                   *)
(***************************************************************************)
EXTENDS Integers, Sequences, FiniteSets, TLC

(***************************************************************************)
(* Bounds of the model.  K and CacheCap are the program's window size      *)
(* (k=10, src/app.py:97) and cache capacity (1000, src/app.py:192) scaled  *)
(* down so that eviction happens within MaxRequests requests; NThreads is  *)
(* the number of requests Flask (threaded=True, a thread per request)      *)
(* handles at a time and NWorkers scales the pool's max_workers=10.        *)
(***************************************************************************)
K == 1
CacheCap == 1
MaxRequests == 2
NThreads == 2
NWorkers == 2
PoolRequests == 3
MaxNow == 240

\* Program constants (seconds).
ReuseWindow == 600
IdleThreshold == 120
SleepInterval == 60

(***************************************************************************)
(* Values.  An optional string is <<>> (Python None) or <<s>>.             *)
(***************************************************************************)
None == <<>>
Some(s) == <<s>>
NoTime == -1            \* connection_stats["last_request_time"] = None
NoObj == 0              \* no memory object / no response object

Digits == <<"0", "1", "2", "3", "4", "5", "6", "7", "8", "9">>

RECURSIVE NatStr(_)
NatStr(n) == IF n < 10 THEN Digits[n + 1]
             ELSE NatStr(n \div 10) \o Digits[(n % 10) + 1]

\* str(uuid.uuid4()) of the n-th request: a string no client sends by itself.
Uuid(n) == "u" \o NatStr(n)

\* response.content of the remote call made by the n-th request.
AnswerOf(n) == "A" \o NatStr(n)

(***************************************************************************)
(* Rationals <<num, den>> in lowest terms, for avg_response_time.          *)
(***************************************************************************)
RECURSIVE Gcd(_, _)
Gcd(a, b) == IF b = 0 THEN a ELSE Gcd(b, a % b)

Norm(n, d) == LET g == Gcd(n, d) IN IF g = 0 THEN <<0, 1>> ELSE <<n \div g, d \div g>>

\* (avg * (total - 1) + api_call_time) / total
RollingAvg(avg, total, api_call_time) ==
    Norm(avg[1] * (total - 1) + api_call_time * avg[2], avg[2] * total)

(***************************************************************************)
(* The request bodies the clients send.  has_q / has_sid say whether the   *)
(* JSON object carries the key; session_id may be JSON null (None).        *)
(***************************************************************************)
Body(hq, q, hs, s, nc, bp) ==
    [has_q |-> hq, question |-> q, has_sid |-> hs, session_id |-> s,
     new_conversation |-> nc, bypass_cache |-> bp]

Payloads ==
    { Body(TRUE, "a_b", TRUE, Some("c"), FALSE, FALSE),
      Body(TRUE, "a_b", TRUE, Some("c"), TRUE, FALSE),
      Body(TRUE, "a_b", TRUE, Some("c"), FALSE, TRUE),
      Body(TRUE, "a", TRUE, Some("b_c"), FALSE, FALSE),
      Body(TRUE, "a", FALSE, None, FALSE, FALSE),
      Body(FALSE, "", TRUE, Some("c"), TRUE, FALSE) }

\* The bodies sent while one request is handled at a time: three distinct
\* cache keys (a uuid is new each time), one session asked twice.
PoolPayloads ==
    { Body(TRUE, "a_b", TRUE, Some("c"), FALSE, FALSE),
      Body(TRUE, "a", TRUE, Some("c"), TRUE, FALSE),
      Body(TRUE, "a", FALSE, None, FALSE, FALSE) }

Latencies == {1}
Outcomes == {"ok", "timeout", "error"}

VARIABLES
    now,                \* time.time(), in seconds
    connection_stats,   \* the dict of src/app.py:46
    session_memories,   \* dict: session_id -> memory object
    chat_memory,        \* heap of memory objects: object -> exchanges kept
    query_cache,        \* dict in insertion order: <<[key, obj], ...>>
    robjs,              \* heap of response_obj dicts, by request number
    queue,              \* thread_pool's work queue
    running,            \* the jobs the pool's workers are running
    reqs,               \* the requests being handled, one thread each
    result,             \* the last HTTP response sent
    nreq,               \* requests received so far
    cache_ops,          \* history: insertions that overflowed, evictions
    completed,          \* history: remote calls folded into the average
    wake                \* when maintenance_worker's sleep ends

vars == <<now, connection_stats, session_memories, chat_memory, query_cache,
          robjs, queue, running, reqs, result, nreq, cache_ops, completed, wake>>

shared == <<connection_stats, session_memories, chat_memory, query_cache, robjs>>

(***************************************************************************)
(* ConversationBufferWindowMemory(k=K, return_messages=True).  The buffer  *)
(* (chat_memory) keeps every exchange saved since the last clear();        *)
(* load_memory_variables returns the last K exchanges.                     *)
(***************************************************************************)
LastN(s, n) == IF Len(s) <= n THEN s ELSE SubSeq(s, Len(s) - n + 1, Len(s))

\* A memory without the window: load_memory_variables returns the buffer.
LoadMemoryWhole(buf) == buf

LoadMemory(buf) == LastN(buf, K)

SaveContext(buf, q, a) == Append(buf, [input |-> q, output |-> a])

(***************************************************************************)
(* query_cache, a Python dict: insertion-ordered, an assignment to a key   *)
(* already present keeps its position.                                     *)
(***************************************************************************)
Truthy(s) == s # None /\ s[1] # ""

\* f"{question}_{session_id if session_id else 'no_session'}"
CacheKey(question, session_id) ==
    question \o "_" \o (IF Truthy(session_id) THEN session_id[1] ELSE "no_session")

Keys(d) == {d[i].key : i \in 1..Len(d)}

Index(d, k) == CHOOSE i \in 1..Len(d) : d[i].key = k

DictGet(d, k) == d[Index(d, k)].obj

DictSet(d, k, o) ==
    IF k \in Keys(d)
    THEN [d EXCEPT ![Index(d, k)] = [key |-> k, obj |-> o]]
    ELSE Append(d, [key |-> k, obj |-> o])

DictDel(d, k) ==
    LET i == Index(d, k)
    IN  SubSeq(d, 1, i - 1) \o SubSeq(d, i + 1, Len(d))

(***************************************************************************)
(* The locals of one activation of ask_question, and its position pc.      *)
(* calls counts its calls of the remote model and touched names the parts  *)
(* of the shared state it has changed (history fields: the code keeps      *)
(* neither).                                                               *)
(***************************************************************************)
NoBody == Body(FALSE, "", FALSE, None, FALSE, FALSE)

NewRequest(rid, data, total_requests) ==
    [rid |-> rid, pc |-> "incr", data |-> data, tr |-> total_requests,
     question |-> "", session_id |-> None, new_conversation |-> FALSE,
     bypass_cache |-> FALSE, rc |-> 0, memory |-> NoObj, chat_history |-> <<>>,
     is_connection_reuse |-> FALSE, answer |-> None, api_call_time |-> 0,
     calls |-> 0, touched |-> {}]

\* An HTTP response: the request it answers, the status code, the error text
\* or the response_obj that was serialized (with the from_cache it carried
\* then), whether it is the return of a cached response (244), and what the
\* request did on the way.
NoResult ==
    [rid |-> 0, code |-> 0, error |-> "", obj |-> NoObj, from_cache |-> FALSE,
     hit |-> FALSE, calls |-> 0, touched |-> {}]

\* A job of the pool: its arguments and locals, and its position pc.  present
\* tells whether a cache_response call found its key in the cache when it
\* stored its payload (a history field).
NoJob == [kind |-> "none", pc |-> "", question |-> "", session_id |-> None,
          obj |-> NoObj, oldest_key |-> "", present |-> FALSE]

(***************************************************************************)
(* Initial state: the module has been imported.  warm_up_connection() at   *)
(* src/app.py:170 either succeeded (last_request_time set, average seeded  *)
(* with duration / 5) or failed (stats as constructed).                    *)
(***************************************************************************)
WarmUpDurations == {5}

Init ==
    /\ now = 0
    /\ \/ connection_stats =
             [total_requests |-> 0, connection_reuse_count |-> 0,
              last_request_time |-> NoTime, avg_response_time |-> <<0, 1>>]
       \/ \E d \in WarmUpDurations :
             connection_stats =
               [total_requests |-> 0, connection_reuse_count |-> 0,
                last_request_time |-> 0, avg_response_time |-> Norm(d, 5)]
    /\ session_memories = <<>>
    /\ chat_memory = <<>>
    /\ query_cache = <<>>
    /\ robjs = <<>>
    /\ queue = <<>>
    /\ running = {}
    /\ reqs = {}
    /\ result = NoResult
    /\ nreq = 0
    /\ cache_ops = [overflows |-> 0, evictions |-> 0]
    /\ completed = [n |-> 0, sum |-> 0, last |-> connection_stats.last_request_time]
    /\ wake = 0

(***************************************************************************)
(* What a step changed of the shared state.                                *)
(***************************************************************************)
CacheView == [i \in 1..Len(query_cache) |->
                 <<query_cache[i].key, robjs[query_cache[i].obj]>>]

ChangedParts ==
    (IF session_memories' # session_memories \/ chat_memory' # chat_memory
     THEN {"sessions"} ELSE {})
    \cup (IF CacheView' # CacheView THEN {"cache"} ELSE {})
    \cup {f \in DOMAIN connection_stats : connection_stats'[f] # connection_stats[f]}

\* The activation r goes on as r2.
Step(r, r2) ==
    /\ reqs' = (reqs \ {r}) \cup {[r2 EXCEPT !.touched = @ \cup ChangedParts]}
    /\ UNCHANGED result

\* The activation r returns the response res: its locals are gone.
Respond(r, res, calls) ==
    /\ reqs' = reqs \ {r}
    /\ result' = [res EXCEPT !.rid = r.rid, !.calls = calls,
                             !.touched = r.touched \cup ChangedParts]

ErrorResult(code, msg) == [NoResult EXCEPT !.code = code, !.error = msg]

\* jsonify(obj), 200: the response carries the dict's fields as they are now.
OkResult(o, obj, hit) ==
    [NoResult EXCEPT !.code = 200, !.obj = o, !.from_cache = obj.from_cache, !.hit = hit]

(***************************************************************************)
(* ask_question, src/app.py:211-343.                                       *)
(***************************************************************************)
\* 219-222: a request arrives; total_requests is read for the += 1.
Receive(bodies, max_requests, max_threads) ==
    /\ nreq < max_requests
    /\ Cardinality(reqs) < max_threads
    /\ \E p \in bodies :
          reqs' = reqs \cup {NewRequest(nreq + 1, p, connection_stats.total_requests)}
    /\ nreq' = nreq + 1
    /\ UNCHANGED <<now, shared, queue, running, result, cache_ops, completed, wake>>

\* Where the handler goes after extracting the fields (236).
AfterExtract(new_conversation, bypass_cache) ==
    IF ~bypass_cache /\ ~new_conversation THEN "lk_in" ELSE "gm_in"

\* 222-233: total_requests is written back; the body is validated and its
\* fields extracted (session_id defaults to a new uuid when the key is absent).
Incr(r) ==
    /\ r.pc = "incr"
    /\ connection_stats' = [connection_stats EXCEPT !.total_requests = r.tr + 1]
    /\ UNCHANGED <<now, session_memories, chat_memory, query_cache, robjs,
                   queue, running, nreq, cache_ops, completed, wake>>
    /\ LET d == r.data
       IN  IF ~d.has_q
           THEN Respond(r, ErrorResult(400, "Missing 'question' in request body"), 0)
           ELSE Step(r, [r EXCEPT
                           !.pc = AfterExtract(d.new_conversation, d.bypass_cache),
                           !.data = NoBody,
                           !.question = d.question,
                           !.session_id = IF d.has_sid THEN d.session_id
                                          ELSE Some(Uuid(r.rid)),
                           !.new_conversation = d.new_conversation,
                           !.bypass_cache = d.bypass_cache])

\* 182: get_cached_response, "if cache_key in query_cache".
LookupIn(r) ==
    /\ r.pc = "lk_in"
    /\ UNCHANGED <<now, shared, queue, running, nreq, cache_ops, completed, wake>>
    /\ Step(r, [r EXCEPT !.pc = IF CacheKey(r.question, r.session_id) \in Keys(query_cache)
                                THEN "lk_get" ELSE "gm_in"])

\* A handler that goes through the session on a hit: the cached exchange is
\* saved in the session's memory, registered first when the session has none.
CacheHitThroughSession(r, o) ==
    /\ robjs' = [robjs EXCEPT ![o].from_cache = TRUE]
    /\ IF r.session_id \in DOMAIN session_memories
       THEN /\ chat_memory' = [chat_memory EXCEPT ![session_memories[r.session_id]] =
                                  SaveContext(@, r.question, robjs[o].answer)]
            /\ UNCHANGED session_memories
       ELSE /\ chat_memory' = Append(chat_memory, <<>>)
            /\ session_memories' =
                  (r.session_id :> (Len(chat_memory) + 1)) @@ session_memories
    /\ UNCHANGED <<connection_stats, query_cache>>
    /\ Respond(r, OkResult(o, robjs'[o], TRUE), r.calls)

\* A least-recently-used cache: the hit moves the entry to the young end.
CacheHitRefreshing(r, o) ==
    /\ robjs' = [robjs EXCEPT ![o].from_cache = TRUE]
    /\ query_cache' = Append(DictDel(query_cache, CacheKey(r.question, r.session_id)),
                             [key |-> CacheKey(r.question, r.session_id), obj |-> o])
    /\ UNCHANGED <<connection_stats, session_memories, chat_memory>>
    /\ Respond(r, OkResult(o, robjs'[o], TRUE), r.calls)

\* 240-244: the cached dict is patched and returned.
CacheHitReturn(r, o) ==
    /\ robjs' = [robjs EXCEPT ![o].from_cache = TRUE]
    /\ UNCHANGED <<connection_stats, session_memories, chat_memory, query_cache>>
    /\ Respond(r, OkResult(o, robjs'[o], TRUE), r.calls)

\* 184: "return query_cache[cache_key]"; the key may have been evicted since
\* the membership test, and the KeyError is answered with a 500 (340-341).
LookupGet(r) ==
    /\ r.pc = "lk_get"
    /\ UNCHANGED <<now, queue, running, nreq, cache_ops, completed, wake>>
    /\ IF CacheKey(r.question, r.session_id) \in Keys(query_cache)
       THEN CacheHitReturn(r, DictGet(query_cache, CacheKey(r.question, r.session_id)))
       ELSE /\ UNCHANGED shared
            /\ Respond(r, ErrorResult(500, "KeyError"), r.calls)

\* 95: get_session_memory, "if session_id not in session_memories".
GetMemoryIn(r) ==
    /\ r.pc = "gm_in"
    /\ UNCHANGED <<now, shared, queue, running, nreq, cache_ops, completed, wake>>
    /\ Step(r, [r EXCEPT !.pc = IF r.session_id \in DOMAIN session_memories
                                THEN "gm_ret" ELSE "gm_new"])

\* 96-98: a new, empty memory object is stored under the session_id,
\* replacing whatever another thread stored there since the test at 95.
GetMemoryNew(r) ==
    /\ r.pc = "gm_new"
    /\ chat_memory' = Append(chat_memory, <<>>)
    /\ session_memories' =
          [s \in DOMAIN session_memories \cup {r.session_id} |->
              IF s = r.session_id THEN Len(chat_memory) + 1 ELSE session_memories[s]]
    /\ UNCHANGED <<now, connection_stats, query_cache, robjs, queue, running, nreq, cache_ops, completed, wake>>
    /\ Step(r, [r EXCEPT !.pc = "gm_ret"])

\* One memory for every session: the first object created is returned.
GetMemoryRetShared(r) ==
    /\ r.pc = "gm_ret"
    /\ UNCHANGED <<now, shared, queue, running, nreq, cache_ops, completed, wake>>
    /\ Step(r, [r EXCEPT !.memory = 1,
                         !.pc = IF r.new_conversation THEN "clear" ELSE "load"])

\* 99, 247: "return session_memories[session_id]".
GetMemoryRet(r) ==
    /\ r.pc = "gm_ret"
    /\ UNCHANGED <<now, shared, queue, running, nreq, cache_ops, completed, wake>>
    /\ Step(r, [r EXCEPT !.memory = session_memories[r.session_id],
                         !.pc = IF r.new_conversation THEN "clear" ELSE "load"])

\* 250-252: memory.clear().
Clear(r) ==
    /\ r.pc = "clear"
    /\ chat_memory' = [chat_memory EXCEPT ![r.memory] = <<>>]
    /\ UNCHANGED <<now, connection_stats, session_memories, query_cache, robjs,
                   queue, running, nreq, cache_ops, completed, wake>>
    /\ Step(r, [r EXCEPT !.pc = "load"])

\* 255-261: the history snapshot handed to the model.
Load(r) ==
    /\ r.pc = "load"
    /\ UNCHANGED <<now, shared, queue, running, nreq, cache_ops, completed, wake>>
    /\ Step(r, [r EXCEPT !.chat_history = LoadMemory(chat_memory[r.memory]),
                         !.pc = "reuse"])

\* 267-268
IsConnectionReuse(last_request_time, t_now) ==
    last_request_time # NoTime /\ (t_now - last_request_time) < ReuseWindow

\* 267-271: the reuse test; connection_reuse_count is read for the += 1.
Reuse(r) ==
    /\ r.pc = "reuse"
    /\ UNCHANGED <<now, shared, queue, running, nreq, cache_ops, completed, wake>>
    /\ LET reuse == IsConnectionReuse(connection_stats.last_request_time, now)
       IN  Step(r, [r EXCEPT !.is_connection_reuse = reuse,
                             !.rc = IF reuse THEN connection_stats.connection_reuse_count
                                    ELSE 0,
                             !.pc = IF reuse THEN "reuse_w" ELSE "invoke"])

\* 271: connection_reuse_count is written back.
ReuseWrite(r) ==
    /\ r.pc = "reuse_w"
    /\ connection_stats' = [connection_stats EXCEPT !.connection_reuse_count = r.rc + 1]
    /\ UNCHANGED <<now, session_memories, chat_memory, query_cache, robjs,
                   queue, running, nreq, cache_ops, completed, wake>>
    /\ Step(r, [r EXCEPT !.pc = "invoke"])

\* A handler that calls the remote model again when the call fails.
InvokeRetrying(r, latencies) ==
    /\ r.pc = "invoke"
    /\ UNCHANGED <<now, shared, queue, running, nreq, cache_ops, completed, wake>>
    /\ \E o \in Outcomes :
          IF o = "ok"
          THEN \E l \in latencies :
                  Step(r, [r EXCEPT !.answer = Some(AnswerOf(r.rid)),
                                    !.api_call_time = l,
                                    !.calls = @ + 1,
                                    !.pc = "stats"])
          ELSE IF r.calls = 0
               THEN Step(r, [r EXCEPT !.calls = @ + 1])
               ELSE Respond(r, ErrorResult(500, o), r.calls + 1)

\* A handler without the except clauses: a failure of the remote call ends
\* the thread and no response is sent.
InvokeUncaught(r, latencies) ==
    /\ r.pc = "invoke"
    /\ UNCHANGED <<now, shared, queue, running, nreq, cache_ops, completed, wake>>
    /\ \E o \in Outcomes :
          IF o = "ok"
          THEN \E l \in latencies :
                  Step(r, [r EXCEPT !.answer = Some(AnswerOf(r.rid)),
                                    !.api_call_time = l,
                                    !.calls = @ + 1,
                                    !.pc = "stats"])
          ELSE reqs' = reqs \ {r} /\ UNCHANGED result

\* 276-282, 342-343: chain.invoke returns an answer after api_call_time, or
\* raises (a timeout of the client, or any other failure): a 500.
Invoke(r, latencies) ==
    /\ r.pc = "invoke"
    /\ UNCHANGED <<now, shared, queue, running, nreq, cache_ops, completed, wake>>
    /\ \E o \in Outcomes :
          IF o = "ok"
          THEN \E l \in latencies :
                  Step(r, [r EXCEPT !.answer = Some(AnswerOf(r.rid)),
                                    !.api_call_time = l,
                                    !.calls = @ + 1,
                                    !.pc = "stats"])
          ELSE Respond(r, ErrorResult(500, o), r.calls + 1)

\* 285-289: last_request_time and the rolling average.
UpdateStats(r) ==
    /\ r.pc = "stats"
    /\ connection_stats' =
          [connection_stats EXCEPT
              !.last_request_time = now,
              !.avg_response_time =
                  RollingAvg(connection_stats.avg_response_time,
                             connection_stats.total_requests, r.api_call_time)]
    /\ completed' = [n |-> completed.n + 1, sum |-> completed.sum + r.api_call_time,
                     last |-> now]
    /\ UNCHANGED <<now, session_memories, chat_memory, query_cache, robjs,
                   queue, running, nreq, cache_ops, wake>>
    /\ Step(r, [r EXCEPT !.pc = "save"])

\* 296-299: memory.save_context.
Save(r) ==
    /\ r.pc = "save"
    /\ chat_memory' = [chat_memory EXCEPT ![r.memory] =
                          SaveContext(@, r.question, r.answer[1])]
    /\ UNCHANGED <<now, connection_stats, session_memories, query_cache, robjs,
                   queue, running, nreq, cache_ops, completed, wake>>
    /\ Step(r, [r EXCEPT !.pc = "build"])

\* 309-330: response_obj.  question and bypass_cache are no keys of the dict:
\* they are kept to tell which request built the object.
ResponseObj(r, updated_history) ==
    [question |-> r.question, bypass_cache |-> r.bypass_cache,
     answer |-> r.answer[1], chat_history |-> updated_history,
     session_id |-> r.session_id, connection_reused |-> r.is_connection_reuse,
     from_cache |-> FALSE]

CacheJob(r) == [NoJob EXCEPT !.kind = "cache_response", !.pc = "cr_set",
                             !.question = r.question,
                             !.session_id = r.session_id, !.obj = r.rid]

MaintainJob(r) == [NoJob EXCEPT !.kind = "maintain_connection_pool", !.pc = "mt",
                                !.obj = r.rid]

\* A handler that leaves the insertion out when the request bypassed the cache.
SubmittedUnlessBypass(r) ==
    IF r.bypass_cache THEN <<MaintainJob(r)>> ELSE <<CacheJob(r), MaintainJob(r)>>

\* The jobs a successful request submits to thread_pool (333, 336).
Submitted(r) == <<CacheJob(r), MaintainJob(r)>>

\* 325-326, 352-353: reuse_percentage, round(count / max(1, total - 1) * 100, 2),
\* in hundredths of a percent.
ReusePercentage(connection_reuse_count, total_requests) ==
    LET d == IF total_requests - 1 > 1 THEN total_requests - 1 ELSE 1
    IN  (connection_reuse_count * 10000 * 2 + d) \div (2 * d)

\* 302-336: the updated history is read, response_obj is built and the two
\* background jobs are submitted.
Build(r) ==
    /\ r.pc = "build"
    /\ robjs' = (r.rid :> ResponseObj(r, LoadMemory(chat_memory[r.memory]))) @@ robjs
    /\ queue' = queue \o Submitted(r)
    /\ UNCHANGED <<now, connection_stats, session_memories, chat_memory, query_cache,
                   running, nreq, cache_ops, completed, wake>>
    /\ Step(r, [r EXCEPT !.pc = "ret"])

\* 338: jsonify(response_obj), 200.
Return(r) ==
    /\ r.pc = "ret"
    /\ UNCHANGED <<now, shared, queue, running, nreq, cache_ops, completed, wake>>
    /\ Respond(r, OkResult(r.rid, robjs[r.rid], FALSE), r.calls)

Handler(r, latencies) ==
    \/ Incr(r)
    \/ LookupIn(r)
    \/ LookupGet(r)
    \/ GetMemoryIn(r)
    \/ GetMemoryNew(r)
    \/ GetMemoryRet(r)
    \/ Clear(r)
    \/ Load(r)
    \/ Reuse(r)
    \/ ReuseWrite(r)
    \/ Invoke(r, latencies)
    \/ UpdateStats(r)
    \/ Save(r)
    \/ Build(r)
    \/ Return(r)

(***************************************************************************)
(* thread_pool (src/app.py:43): a free worker takes the oldest job of the  *)
(* queue and runs it; an exception ends the job and is kept in its Future, *)
(* which nobody reads.                                                     *)
(***************************************************************************)
Take ==
    /\ Cardinality(running) < NWorkers
    /\ queue # <<>>
    /\ running' = running \cup {Head(queue)}
    /\ queue' = Tail(queue)
    /\ UNCHANGED <<now, shared, reqs, result, nreq, cache_ops, completed, wake>>

JobStep(j, j2) == running' = (running \ {j}) \cup {j2}

Finish(j) == running' = running \ {j}

\* 192: "if len(query_cache) > 1000".
OverCapacity(d) == Len(d) > CacheCap

\* cache_response, 189-190: query_cache[cache_key] = response.
CacheSet(j) ==
    /\ j.pc = "cr_set"
    /\ query_cache' = DictSet(query_cache, CacheKey(j.question, j.session_id), j.obj)
    /\ cache_ops' = IF Len(query_cache') > Len(query_cache) /\ OverCapacity(query_cache')
                    THEN [cache_ops EXCEPT !.overflows = @ + 1]
                    ELSE cache_ops
    /\ JobStep(j, [j EXCEPT !.pc = "cr_len",
                            !.present = CacheKey(j.question, j.session_id)
                                           \in Keys(query_cache)])
    /\ UNCHANGED <<now, connection_stats, session_memories, chat_memory, robjs,
                   queue, reqs, result, nreq, completed, wake>>

\* 192: the test of the size.
CacheLen(j) ==
    /\ j.pc = "cr_len"
    /\ IF OverCapacity(query_cache)
       THEN JobStep(j, [j EXCEPT !.pc = "cr_next"])
       ELSE Finish(j)
    /\ UNCHANGED <<now, shared, queue, reqs, result, nreq, cache_ops, completed, wake>>

\* 194: oldest_key = next(iter(query_cache)); StopIteration on an empty dict.
OldestKey(d) == d[1].key

CacheNext(j) ==
    /\ j.pc = "cr_next"
    /\ IF query_cache = <<>>
       THEN Finish(j)
       ELSE JobStep(j, [j EXCEPT !.oldest_key = OldestKey(query_cache), !.pc = "cr_del"])
    /\ UNCHANGED <<now, shared, queue, reqs, result, nreq, cache_ops, completed, wake>>

\* 195: del query_cache[oldest_key]; KeyError when another job deleted it.
CacheDel(j) ==
    /\ j.pc = "cr_del"
    /\ IF j.oldest_key \in Keys(query_cache)
       THEN /\ query_cache' = DictDel(query_cache, j.oldest_key)
            /\ cache_ops' = [cache_ops EXCEPT !.evictions = @ + 1]
       ELSE UNCHANGED <<query_cache, cache_ops, completed, wake>>
    /\ Finish(j)
    /\ UNCHANGED <<now, connection_stats, session_memories, chat_memory, robjs,
                   queue, reqs, result, nreq, completed, wake>>

\* A test that takes a missing timestamp for an idle pool.
NeedsWarmUpWhenUnset(last_request_time, t_now) ==
    last_request_time = NoTime \/ (t_now - last_request_time) > IdleThreshold

\* A test that fires at the threshold already.
NeedsWarmUpAtThreshold(last_request_time, t_now) ==
    last_request_time # NoTime /\ (t_now - last_request_time) >= IdleThreshold

\* maintain_connection_pool, 143-152: a warm-up is submitted when the last
\* request is more than IdleThreshold seconds old.
NeedsWarmUp(last_request_time, t_now) ==
    last_request_time # NoTime /\ (t_now - last_request_time) > IdleThreshold

WarmUpJob(j) == [NoJob EXCEPT !.kind = "warm_up_connection", !.pc = "wu", !.obj = j.obj]

Maintain(j) ==
    /\ j.pc = "mt"
    /\ queue' = IF NeedsWarmUp(connection_stats.last_request_time, now)
                THEN Append(queue, WarmUpJob(j))
                ELSE queue
    /\ Finish(j)
    /\ UNCHANGED <<now, shared, reqs, result, nreq, cache_ops, completed, wake>>

Worker(j) ==
    \/ CacheSet(j)
    \/ CacheLen(j)
    \/ CacheNext(j)
    \/ CacheDel(j)
    \/ Maintain(j)

\* warm_up_connection, 102-135, run as a job of the pool: the five calls fail
\* (nothing is written) or succeed after some duration, and then
\* last_request_time and avg_response_time are written (130-131).
WarmUp(j) ==
    /\ j.pc = "wu"
    /\ \/ UNCHANGED connection_stats
       \/ \E d \in WarmUpDurations :
             connection_stats' = [connection_stats EXCEPT
                                     !.last_request_time = now,
                                     !.avg_response_time = Norm(d, 5)]
    /\ Finish(j)
    /\ UNCHANGED <<now, session_memories, chat_memory, query_cache, robjs,
                   queue, reqs, result, nreq, cache_ops, completed, wake>>

\* maintenance_worker, 160-163: maintain_connection_pool() and then
\* time.sleep(60), for ever.  maintain_connection_pool (143-152) submits the
\* warm-up to thread_pool and returns.
MaintenanceWorker ==
    /\ now >= wake
    /\ queue' = IF NeedsWarmUp(connection_stats.last_request_time, now)
                THEN Append(queue, [NoJob EXCEPT !.kind = "warm_up_connection",
                                                 !.pc = "wu"])
                ELSE queue
    /\ wake' = now + SleepInterval
    /\ UNCHANGED <<now, shared, running, reqs, result, nreq, cache_ops, completed>>

\* Time passes, in steps of the maintenance thread's sleep; the thread wakes
\* when its sleep ends.
Tick ==
    /\ now < wake
    /\ now + SleepInterval <= MaxNow
    /\ now' = now + SleepInterval
    /\ UNCHANGED <<shared, queue, running, reqs, result, nreq, cache_ops,
                   completed, wake>>

\* Up to NThreads requests at a time, NWorkers pool workers.
Next ==
    \/ Receive(Payloads, MaxRequests, NThreads)
    \/ \E r \in reqs : Handler(r, Latencies)
    \/ Take
    \/ \E j \in running : Worker(j)

Spec == Init /\ [][Next]_vars

\* One request at a time, its background jobs still running in the pool
\* while the next requests are handled.
NextPool ==
    \/ Receive(PoolPayloads, PoolRequests, 1)
    \/ \E r \in reqs : Handler(r, Latencies)
    \/ Take
    \/ \E j \in running : Worker(j)

SpecPool == Init /\ [][NextPool]_vars

\* The pool's workers are threads of their own: a job that can be taken is
\* taken, and a running job goes on.  Nothing is assumed of the clients or of
\* the handlers, which wait for the remote model.
LivePayloads ==
    { Body(TRUE, "a_b", TRUE, Some("c"), FALSE, TRUE),
      Body(TRUE, "a_b", TRUE, Some("c"), FALSE, FALSE),
      Body(TRUE, "a", TRUE, Some("c"), TRUE, FALSE) }

NextLive ==
    \/ Receive(LivePayloads, MaxRequests, 1)
    \/ \E r \in reqs : Handler(r, Latencies)
    \/ Take
    \/ \E j \in running : Worker(j)

SpecLive ==
    /\ Init
    /\ [][NextLive]_vars
    /\ WF_vars(Take)
    /\ WF_vars(\E j \in running : Worker(j))

\* Requests that leave the session to the server: no session_id key, a JSON
\* null, an empty string; and one that names its session.
IdPayloads ==
    { Body(TRUE, "a", FALSE, None, FALSE, FALSE),
      Body(TRUE, "a", TRUE, None, FALSE, FALSE),
      Body(TRUE, "a", TRUE, Some(""), FALSE, FALSE),
      Body(TRUE, "a", TRUE, Some("c"), FALSE, FALSE) }

NextIds ==
    \/ Receive(IdPayloads, MaxRequests, 1)
    \/ \E r \in reqs : Handler(r, Latencies)
    \/ Take
    \/ \E j \in running : Worker(j)

SpecIds == Init /\ [][NextIds]_vars

\* One client, one request at a time, while time passes and the maintenance
\* thread runs.
TimePayloads ==
    { Body(TRUE, "a", TRUE, Some("c"), FALSE, TRUE) }

NextTime ==
    \/ Receive(TimePayloads, MaxRequests, 1)
    \/ \E r \in reqs : Handler(r, Latencies)
    \/ Take
    \/ \E j \in running : Worker(j) \/ WarmUp(j)
    \/ MaintenanceWorker
    \/ Tick

SpecTime == Init /\ [][NextTime]_vars

\* Three requests, NThreads at a time: enough for a thread to write back a
\* counter it read before two others have incremented it.  The first
\* MaxRequests requests are of either kind, the later ones have no question.
NoQuestionPayloads ==
    { Body(FALSE, "", FALSE, None, FALSE, FALSE) }

StatPayloads ==
    NoQuestionPayloads \cup { Body(TRUE, "a", TRUE, Some("c"), FALSE, TRUE) }

NextStats ==
    \/ Receive(StatPayloads, MaxRequests, NThreads)
    \/ Receive(NoQuestionPayloads, PoolRequests, NThreads)
    \/ \E r \in reqs : Handler(r, Latencies)
    \/ Take
    \/ \E j \in running : Worker(j)

SpecStats == Init /\ [][NextStats]_vars

\* Two sessions asked by three requests, none of them going through the
\* cache: the first MaxRequests of them NThreads at a time, the last one by
\* itself.
IsoPayloads ==
    { Body(TRUE, "a", TRUE, Some("c"), FALSE, TRUE),
      Body(TRUE, "a", TRUE, Some("d"), FALSE, TRUE) }

NextIso ==
    \/ Receive(IsoPayloads, MaxRequests, NThreads)
    \/ Receive(IsoPayloads, PoolRequests, 1)
    \/ \E r \in reqs : Handler(r, Latencies)
    \/ Take
    \/ \E j \in running : Worker(j)

SpecIso == Init /\ [][NextIso]_vars

(***************************************************************************)
(* The claims.                                                             *)
(***************************************************************************)
Last(s) == s[Len(s)]

\* C1: every history snapshot read from a session holds at most K exchanges,
\* and an exchange appended to a session whose snapshot already holds K makes
\* the oldest one disappear from the snapshot, the K most recent remaining
\* in order.
SessionWindow ==
    /\ [](/\ \A r \in reqs : Len(r.chat_history) <= K
          /\ \A o \in DOMAIN robjs : Len(robjs[o].chat_history) <= K)
    /\ [][\A m \in 1..Len(chat_memory) :
            LET before == LoadMemory(chat_memory[m])
                after == LoadMemory(chat_memory'[m])
            IN  chat_memory'[m] # chat_memory[m] =>
                   \/ chat_memory'[m] = <<>>
                   \/ /\ chat_memory'[m] = Append(chat_memory[m], Last(chat_memory'[m]))
                      /\ Len(after) <= K
                      /\ after = Append(IF Len(before) < K THEN before ELSE Tail(before),
                                        Last(chat_memory'[m]))]_vars

\* C1 witness: a session has been given its (K+1)th exchange, and a response
\* carries the snapshot of the K most recent, without the first.
SessionWindowWitness ==
    \E m \in 1..Len(chat_memory) : \E o \in DOMAIN robjs :
        /\ Len(chat_memory[m]) = K + 1
        /\ robjs[o].chat_history = SubSeq(chat_memory[m], 2, K + 1)
        /\ \A i \in 1..K : robjs[o].chat_history[i] # chat_memory[m][1]

\* C2: the response cache never holds more than CacheCap entries, in any
\* reachable state, cache_response jobs running interleaved or not.
CacheWithinCapacity == Len(query_cache) <= CacheCap

\* The same with every job at rest: no request is being handled and the pool
\* has nothing queued or running.
CacheWithinCapacityAtRest ==
    (reqs = {} /\ queue = <<>> /\ running = {}) => Len(query_cache) <= CacheCap

\* C3: every insertion of a new key that makes the cache exceed its capacity
\* is followed by the eviction of exactly one entry: once the cache_response
\* jobs have ended, there have been as many evictions as such insertions.
NoCacheJob ==
    /\ \A j \in running : j.kind # "cache_response"
    /\ \A i \in 1..Len(queue) : queue[i].kind # "cache_response"

OneEvictionPerOverflow ==
    NoCacheJob => cache_ops.evictions = cache_ops.overflows

\* C4: a request is answered from the cache only with a payload stored for
\* exactly its own question and its own session_id.
CacheKeyIsTheLiteralPair ==
    [][\A r \in reqs :
          (result'.rid = r.rid /\ result'.hit)
             => /\ robjs[result'.obj].question = r.question
                /\ robjs[result'.obj].session_id = r.session_id]_vars

\* C5: a request answered from the cache has made no call of the remote model
\* and has neither created a session nor cleared or extended a history.
CacheHitTouchesNoSession ==
    result.hit => (result.calls = 0 /\ "sessions" \notin result.touched)

\* C5 witness: a response came from the cache while sessions exist.
CacheHitWitness ==
    /\ result.hit
    /\ result.code = 200
    /\ DOMAIN session_memories # {}
    /\ \E m \in 1..Len(chat_memory) : chat_memory[m] # <<>>

\* C6: a request with bypass_cache=true is never at the cache lookup; one that
\* succeeds hands its response_obj to the pool before it returns, and the
\* response_obj handed over is eventually stored in the cache under the key
\* of its question and session_id.
ObjKey(o) == CacheKey(robjs[o].question, robjs[o].session_id)

BypassSubmitted(o) ==
    /\ IF o \in DOMAIN robjs THEN robjs[o].bypass_cache ELSE FALSE
    /\ \E i \in 1..Len(queue) : queue[i].kind = "cache_response" /\ queue[i].obj = o

Stored(o) ==
    IF o \in DOMAIN robjs
    THEN ObjKey(o) \in Keys(query_cache) /\ DictGet(query_cache, ObjKey(o)) = o
    ELSE FALSE

BypassStillInserts ==
    /\ [](\A r \in reqs : r.bypass_cache => r.pc \notin {"lk_in", "lk_get"})
    /\ [][\A r \in reqs :
             (r.bypass_cache /\ r.pc = "build" /\ r \notin reqs')
                => \E i \in 1..Len(queue') : queue'[i] = CacheJob(r)]_vars
    /\ \A o \in 1..MaxRequests : BypassSubmitted(o) ~> Stored(o)

\* C6 witness: a later request that did not bypass the cache was answered
\* with the response_obj a bypassing request had built.
BypassWitness ==
    /\ result.hit
    /\ result.code = 200
    /\ robjs[result.obj].bypass_cache
    /\ result.rid > result.obj

\* C7: the history a request with new_conversation=true hands to the remote
\* model is empty, whatever else runs for the same session.
NewConversationStartsEmpty ==
    \A r \in reqs :
        (r.new_conversation /\ r.pc \in {"reuse", "reuse_w", "invoke"})
           => r.chat_history = <<>>

\* C8: a request answered with an error (400 or 500) has changed neither the
\* session store nor the cache.
ErrorsLeaveStoresAlone ==
    result.code \in {400, 500} => result.touched \cap {"sessions", "cache"} = {}

\* C9: a request whose remote call timed out has changed no shared state:
\* none of the four statistics, the session store or the cache.
TimeoutChangesNothing ==
    result.error = "timeout" => result.touched = {}

\* C10: the memory object a request appends its exchange to is the one
\* registered for its session_id, which later requests for that id read.
AppendsReachTheSession ==
    \A r \in reqs :
        r.pc \in {"build", "ret"} => session_memories[r.session_id] = r.memory

\* C11: once n remote calls have completed and been folded into the average,
\* avg_response_time is the arithmetic mean of their n latencies.
AvgIsTheMean ==
    completed.n > 0
       => connection_stats.avg_response_time = Norm(completed.sum, completed.n)

\* C12: a request is answered from the cache only if it set neither
\* bypass_cache nor new_conversation and the cache holds an entry for its key;
\* every other request with a question is answered after exactly one call of
\* the remote model, and no request calls it twice.
CacheOrOneCall ==
    [][\A r \in reqs :
          /\ r.calls <= 1
          /\ result'.rid = r.rid =>
                /\ result'.hit =>
                      /\ ~r.bypass_cache /\ ~r.new_conversation
                      /\ CacheKey(r.question, r.session_id) \in Keys(query_cache)
                /\ (~result'.hit /\ result'.code # 400) => result'.calls = 1]_vars

\* C13: a lookup, hit or miss, leaves the order in which the cache evicts its
\* entries as it was: no step of get_cached_response or of the return of a
\* cached response changes the keys of query_cache or their order.
KeyOrder == [i \in 1..Len(query_cache) |-> query_cache[i].key]

HitKeepsOrder ==
    [][\A r \in reqs :
          (r.pc \in {"lk_in", "lk_get"} /\ r \notin reqs') => KeyOrder' = KeyOrder]_vars

\* C13 witness: the entry a request was answered from has since been evicted,
\* the hit notwithstanding.
HitThenEvictedWitness ==
    /\ result.hit
    /\ result.code = 200
    /\ cache_ops.evictions > 0
    /\ ObjKey(result.obj) \notin Keys(query_cache)

\* C14: a request that supplies no session_id (no key, or a key without a
\* value) goes on with an identifier that is a non-empty string and that no
\* earlier request has used.
UsedIds(r) ==
    DOMAIN session_memories
       \cup {x.session_id : x \in {y \in reqs \ {r} : y.pc # "incr"}}
       \cup {robjs[o].session_id : o \in DOMAIN robjs}

FreshSessionId ==
    [][\A r \in reqs :
          (/\ r.pc = "incr"
           /\ r.data.has_q
           /\ ~r.data.has_sid \/ ~Truthy(r.data.session_id))
             => \A r2 \in reqs' :
                   (r2.rid = r.rid /\ r2.pc # "incr")
                      => (Truthy(r2.session_id) /\ r2.session_id \notin UsedIds(r))]_vars

\* C15: a request being handled can always go on; it leaves the handler with
\* one response and not otherwise; the response is a 400 with the error text
\* exactly when the body has no question, a 500 with an error text exactly
\* when the remote call or a step of the handler failed, and a 200 with a
\* response object otherwise.
Failed(r) ==
    \/ r.pc = "invoke"
    \/ r.pc = "lk_get" /\ CacheKey(r.question, r.session_id) \notin Keys(query_cache)

OneStructuredResponse ==
    /\ [](\A r \in reqs : ENABLED Handler(r, Latencies))
    /\ [][\A r \in reqs :
             /\ (\A r2 \in reqs' : r2.rid # r.rid) <=> result'.rid = r.rid
             /\ result'.rid = r.rid =>
                   /\ result'.code \in {200, 400, 500}
                   /\ result'.code = 400 <=> (r.pc = "incr" /\ ~r.data.has_q)
                   /\ result'.code = 500 <=> Failed(r)
                   /\ result'.code # 200 => (result'.error # "" /\ result'.obj = NoObj)
                   /\ result'.code = 200 =>
                         (result'.error = "" /\ result'.obj \in DOMAIN robjs')]_vars

\* C15 witness: a request was answered with a 500 and a later one is about to
\* be answered with a 200.
ServedAfterFailureWitness ==
    /\ result.code = 500
    /\ \E r \in reqs : r.rid > result.rid /\ r.pc = "ret"

\* Two requests under way at once for the same (question, session_id).
Twins(r1, r2) ==
    /\ r1.rid # r2.rid
    /\ r1.pc # "incr" /\ r2.pc # "incr"
    /\ r1.question = r2.question
    /\ r1.session_id = r2.session_id

\* C16: two requests with the same (question, session_id) that run at the
\* same time, the cache having no entry for their key, make at most one call
\* of the remote model between them.
OneCallForTwins ==
    \A r1, r2 \in reqs :
        (Twins(r1, r2) /\ CacheKey(r1.question, r1.session_id) \notin Keys(query_cache))
           => r1.calls + r2.calls <= 1

\* C16 as amended: each of the two makes its own call, one and no more: none
\* before chain.invoke, one once chain.invoke has returned.
OneCallEach ==
    \A r1, r2 \in reqs :
        Twins(r1, r2) =>
           \A r \in {r1, r2} :
              /\ r.calls <= 1
              /\ r.pc \in {"stats", "save", "build", "ret"} => r.calls = 1
              /\ r.pc \in {"lk_in", "lk_get", "gm_in", "gm_new", "gm_ret", "clear",
                            "load", "reuse", "reuse_w", "invoke"} => r.calls = 0

\* C16 witness: both have called the remote model, and the cache has no entry
\* for their key.
TwinsBothCalledWitness ==
    \E r1, r2 \in reqs :
        /\ Twins(r1, r2)
        /\ ~r1.bypass_cache /\ ~r2.bypass_cache
        /\ ~r1.new_conversation /\ ~r2.new_conversation
        /\ r1.calls = 1 /\ r2.calls = 1
        /\ CacheKey(r1.question, r1.session_id) \notin Keys(query_cache)

\* A tick of the maintainer: an iteration of the polling loop, or the end of
\* a maintain_connection_pool job a request has scheduled.
MaintainerTick ==
    \/ wake' # wake
    \/ \E j \in running : j.pc = "mt" /\ j \notin running'

WarmUpSubmitted ==
    /\ Len(queue') = Len(queue) + 1
    /\ queue'[Len(queue')].kind = "warm_up_connection"

\* C17: last_request_time is written by requests only, never by a warm-up;
\* and every tick of the maintainer that comes more than IdleThreshold after
\* the last request (or the start, before any request) submits a warm-up.
OnlyRequestsStampActivity ==
    /\ [][connection_stats'.last_request_time # connection_stats.last_request_time
            => \E r \in reqs : r.pc = "stats" /\ r \notin reqs']_vars
    /\ [][(/\ MaintainerTick
           /\ completed.last # NoTime
           /\ now - completed.last > IdleThreshold) => WarmUpSubmitted]_vars

\* C18: the call of a request is classified as connection reuse exactly when
\* an earlier request has stamped its call and that was less than ReuseWindow
\* ago, a warm-up not counting as a request; and connection_reuse_count grows
\* by one for a call so classified and stays as it is for any other.
ReuseIffRecentRequest ==
    [][\A r \in reqs :
          /\ r.pc = "reuse" =>
                \A r2 \in reqs' :
                   (r2.rid = r.rid /\ r2.pc # "reuse") =>
                      (r2.is_connection_reuse <=>
                          (completed.n > 0 /\ now - completed.last < ReuseWindow))
          /\ (r.pc \in {"reuse", "reuse_w"} /\ r \notin reqs') =>
                connection_stats'.connection_reuse_count =
                   connection_stats.connection_reuse_count
                      + (IF r.pc = "reuse_w" THEN 1 ELSE 0)]_vars

\* C19: no step makes total_requests or connection_reuse_count smaller.
CountersNeverDecrease ==
    [][/\ connection_stats'.total_requests >= connection_stats.total_requests
       /\ connection_stats'.connection_reuse_count
             >= connection_stats.connection_reuse_count]_vars

\* C20: a tick of the maintainer, of the polling loop or scheduled by a
\* request, submits a warm-up to the pool exactly when last_request_time is
\* more than IdleThreshold old, and ends in that step, the warm-up not yet
\* run: the statistics are as they were.
WarmUpExactlyWhenIdle ==
    [][MaintainerTick =>
          /\ IF /\ connection_stats.last_request_time # NoTime
                /\ now - connection_stats.last_request_time > IdleThreshold
             THEN WarmUpSubmitted
             ELSE queue' = queue
          /\ connection_stats' = connection_stats
          /\ \A j \in running' : j \in running]_vars

\* C20 witness: warm-ups wait in the pool's queue, one submitted by the
\* polling loop and one by the tick a request scheduled.
WarmUpsQueuedWitness ==
    \E i, k \in 1..Len(queue) :
        /\ queue[i].kind = "warm_up_connection" /\ queue[i].obj = NoObj
        /\ queue[k].kind = "warm_up_connection" /\ queue[k].obj # NoObj

\* The session_id of the request whose call produced the exchange e.
Owners(e) ==
    {robjs[o].session_id : o \in {x \in DOMAIN robjs : robjs[x].answer = e.output}}
       \cup {r.session_id : r \in {x \in reqs : x.answer = Some(e.output)}}

\* C21: the chat_history of a successful response that did not come from the
\* cache ends with the (question, answer) exchange of its own request and
\* holds only exchanges of requests of its own session.
HistoryEndsWithOwnExchange ==
    (result.code = 200 /\ ~result.hit) =>
        LET obj == robjs[result.obj]
        IN  /\ obj.chat_history # <<>>
            /\ Last(obj.chat_history) = [input |-> obj.question, output |-> obj.answer]
            /\ \A i \in 1..Len(obj.chat_history) :
                  Owners(obj.chat_history[i]) = {obj.session_id}

\* C22: a successful response reports from_cache=true exactly when it was
\* served from the cache, and from_cache=false when its request called the
\* remote model, whatever happens to the response object in between.
FromCacheTellsTheSource ==
    result.code = 200 => (result.from_cache <=> result.hit)

\* The exchanges session s holds since its last clear(): the whole buffer of
\* its memory object, which loses an exchange by clear() only.
Buffer(s) ==
    IF s \in DOMAIN session_memories
    THEN {chat_memory[session_memories[s]][i] :
             i \in 1..Len(chat_memory[session_memories[s]])}
    ELSE {}

\* C23: a successful response for session s, at the time it is sent, carries
\* no exchange that a new_conversation request has cleared from s: every
\* exchange of its chat_history is still in the session's buffer.
NoClearedExchangeReturned ==
    [][\A r \in reqs :
          (result'.rid = r.rid /\ result'.code = 200) =>
             \A i \in 1..Len(robjs'[result'.obj].chat_history) :
                robjs'[result'.obj].chat_history[i] \in Buffer(r.session_id)']_vars

\* The history stored for session s: the buffer of the memory object
\* registered under s.
StoredHistory(s) ==
    IF s \in DOMAIN session_memories THEN chat_memory[session_memories[s]] ELSE <<>>

\* C24: a step that changes the history stored for a session is a step of a
\* request that carries that session's identifier, and every exchange of the
\* history a request hands to the remote model was appended by a request that
\* carried the same identifier.
SessionsAreIsolated ==
    /\ [][\A s \in DOMAIN session_memories' :
             StoredHistory(s)' # StoredHistory(s) =>
                \E r \in reqs : r.pc # "incr" /\ r.session_id = s /\ r \notin reqs']_vars
    /\ [](\A r \in reqs :
             r.pc = "invoke" =>
                \A i \in 1..Len(r.chat_history) :
                   Owners(r.chat_history[i]) = {r.session_id})

\* C24 witness: a request is about to hand a non-empty history to the model
\* while another session has a history of its own.
TwoSessionsWitness ==
    \E r \in reqs : \E s \in DOMAIN session_memories :
        /\ r.pc = "invoke"
        /\ r.chat_history # <<>>
        /\ s # r.session_id
        /\ StoredHistory(s) # <<>>

\* C25: the reuse_percentage that /ask and /stats compute from the counters
\* lies between 0 and 100 in every state the counters can be in.
ReusePercentageInRange ==
    LET pct == ReusePercentage(connection_stats.connection_reuse_count,
                               connection_stats.total_requests)
    IN  0 <= pct /\ pct <= 100 * 100

\* The start-up warm-up has failed and no request has had an answer from the
\* remote model yet.
StartupFailedNoCallYet ==
    /\ completed.last = NoTime
    /\ completed.n = 0
    /\ \A r \in reqs : r.answer = None

\* C26: when the start-up warm-up has failed, then as long as no request has
\* completed a call of the remote model, last_request_time is unset, no
\* warm-up is queued or running, no tick of the maintainer submits one, and
\* no request is classified as connection reuse or counted as one.
NoActivityUntilFirstCall ==
    /\ [](StartupFailedNoCallYet =>
             /\ connection_stats.last_request_time = NoTime
             /\ connection_stats.connection_reuse_count = 0
             /\ \A r \in reqs : ~r.is_connection_reuse /\ r.pc # "reuse_w"
             /\ \A j \in running : j.kind # "warm_up_connection"
             /\ \A i \in 1..Len(queue) : queue[i].kind # "warm_up_connection")
    /\ [][(StartupFailedNoCallYet /\ MaintainerTick) => queue' = queue]_vars

\* C26 witness: the start-up warm-up failed, a request has failed since, the
\* polling loop has run more than IdleThreshold after the start, and a
\* request is at its call of the remote model, not classified as reuse.
ColdStartWitness ==
    /\ StartupFailedNoCallYet
    /\ now > IdleThreshold
    /\ wake > now
    /\ result.code = 500
    /\ \E r \in reqs : r.pc = "invoke" /\ ~r.is_connection_reuse

\* C27: a cache_response call whose key is in the cache stores its payload
\* under that key and leaves the keys and their order as they are, and no
\* later step of the call removes an entry.
ReplaceEvictsNothing ==
    [][\A j \in running :
          /\ (/\ j.pc = "cr_set"
              /\ j \notin running'
              /\ CacheKey(j.question, j.session_id) \in Keys(query_cache))
                => /\ KeyOrder' = KeyOrder
                   /\ DictGet(query_cache', CacheKey(j.question, j.session_id)) = j.obj
          /\ (j.present /\ j \notin running') => query_cache' = query_cache]_vars

====
